---------------------------- MODULE Spec2Model ----------------------------
(***************************************************************************)
(* Remote command dispatch of coffee_redis: app/models/command.py          *)
(* (RemoteCommand) over the Redis structures of one device:                *)
(*   cm:dev:<d>:cmd:<id>        hash    -> rec[id]                          *)
(*   cm:dev:<d>:cmds:by_ts      zset    -> byTs                             *)
(*   cm:dev:<d>:q:cmd:pending   list    -> pending (index 1 is the head)    *)
(*   cm:dev:<d>:cmd:inflight    zset    -> inflight (member |-> score)      *)
(* Every Redis call is one atomic step; a Python method that makes several  *)
(* calls is several steps, and steps of different clients interleave.       *)
(* The Lua script of claim_pending_commands is one step.                    *)
(***************************************************************************)
EXTENDS Integers, Sequences, FiniteSets, TLC

VARIABLES
    now,        \* get_current_ts(): the wall clock, in seconds
    rec,        \* the command hashes: rec[id], ids are 1..Len(rec) in issue order
    byTs,       \* the by_ts index: id |-> issued_ts
    pending,    \* the pending list, head first
    inflight,   \* the inflight zset: id |-> claim timestamp
    spc, sobj,  \* the client running save(): position, the RemoteCommand object
    cpc, creq, cids, cret,  \* claim_pending_commands callers: position, max_commands,
                            \* claimed_ids still to fetch, commands collected
    held,       \* command ids handed to the device and not yet reported on
    rpc, robj,  \* the client handling a device report: position, the object from get()
    wpc, wts, wids, wobj,   \* the sweep: position, current_ts, timed_out_ids left, command
    ticks,      \* number of clock advances so far (bounds the exploration)
    resaves,    \* number of get()+save() round trips so far (bounds the exploration)
    nclaimed,   \* history: how often each id was popped by the claim script
    reported,   \* history: the ids a device report was handled for
    wlast,      \* history: the store as the last finished sweep pass left it
    wother,     \* a second sweep instance, while it is not the one stepping
    dinfl,      \* the devices whose inflight key exists, each holding one expired id
    dpend,      \* the devices whose expired command a sweep pass put back in pending
    swept,      \* the device ids the last recover_timed_out_commands() passed over
    bset,       \* the member set of the batch: the refs device_id|command_id
    bhash,      \* the stored hash of the batch
    bobj,       \* the CommandBatch object of the caller
    cstat,      \* the stored status of the commands the batch may refer to
    nadds,      \* history: the number of add_command calls so far
    dhash,      \* the stored device hashes: device id |-> its fields
    dobj,       \* the Device object a caller holds for each device id
    idxStatus,  \* the device status indexes: status |-> set of device ids
    idxMerchant,    \* the merchant indexes: merchant id |-> set of device ids
    binhash,    \* the stored hash of one bin of a device
    binobj,     \* the DeviceBin object each holder has of that bin
    lowbins,    \* the device's low-bins set: bin indexes
    ohash,      \* the stored order hashes of a device: order id |-> its fields
    dayCount,   \* the device's daily order counter: day |-> value
    dayRevenue, \* the device's daily revenue counter: day |-> cents
    nsaves      \* number of Order.save calls so far (bounds the exploration)

(* the command structures of the one device the claim, report and sweep     *)
(* actions work on                                                          *)
cmdvars == <<now, rec, byTs, pending, inflight, spc, sobj, cpc, creq, cids, cret,
             held, rpc, robj, wpc, wts, wids, wobj, ticks, resaves, nclaimed,
             reported, wlast, wother>>

(* the inflight keys of all devices, as the device discovery sees them *)
scanvars == <<dinfl, dpend, swept>>

(* the state outside the command structures of one device *)
(* one command batch and the commands of its devices *)
batchvars == <<bset, bhash, bobj, cstat, nadds>>

(* the devices and their indexes *)
devvars == <<dhash, dobj, idxStatus, idxMerchant>>

(* one material bin of a device and the device's low-bins set *)
binvars == <<binhash, binobj, lowbins>>

(* the orders of a device and its daily counters *)
ordvars == <<ohash, dayCount, dayRevenue, nsaves>>

others == <<scanvars, batchvars, devvars, binvars, ordvars>>

(* what an operation on one of these leaves alone *)
outsideScan == <<cmdvars, batchvars, devvars, binvars, ordvars>>
outsideBatch == <<cmdvars, scanvars, devvars, binvars, ordvars>>
outsideDevice == <<cmdvars, scanvars, batchvars, binvars, ordvars>>
outsideBin == <<cmdvars, scanvars, batchvars, devvars, ordvars>>
outsideOrder == <<cmdvars, scanvars, batchvars, devvars, binvars>>

vars == <<cmdvars, others>>

-----------------------------------------------------------------------------
(* Bounds of the exploration *)

MaxCmds == 2        \* commands issued in Spec
MaxTicks == 1       \* clock advances in Spec
MaxPending == 3     \* commands issued in SpecClaim
NCallers == 2       \* concurrent claim callers in SpecClaim
SeqCmds == 1        \* commands issued in SpecSeq and SpecResave
SeqTicks == 2       \* clock advances in SpecSeq and SpecResave
MaxResaves == 1     \* get()+save() round trips in SpecResave
IdemCmds == 1       \* commands issued in SpecIdem
IdemTicks == 1      \* clock advances in SpecIdem
RoundCmds == 1      \* commands issued in SpecRound
IsoCmds == 1        \* commands issued in SpecIso
IsoTicks == 1       \* clock advances in SpecIso
TwoCmds == 1        \* commands issued in SpecTwo
TwoTicks == 1       \* clock advances in SpecTwo
QueueCmds == 2      \* commands issued in SpecQueue
QueueTicks == 1     \* clock advances in SpecQueue
DeadlineCmds == 1   \* commands issued in SpecDeadline
DeadlineTicks == 1  \* clock advances in SpecDeadline
StatusCmds == 1     \* commands issued in SpecStatus
StatusTicks == 1    \* clock advances in SpecStatus
GoneCmds == 3       \* commands issued in SpecGone
FairCmds == 1       \* commands issued in SpecFair
MaxAdds == 4        \* add_command calls in SpecBatch
MaxSaves == 4       \* Order.save calls in SpecOrder
FairTicks == 2      \* clock advances in SpecFair

(* Inputs *)
Priorities == {0, 5}            \* priority: default 0, "higher = higher priority"
AttemptLimits == {0, 3}         \* max_attempts: none allowed, and the default
RetryLimits == {1, 2}           \* max_attempts that allow at least one attempt
ShortTimeouts == {1}            \* timeout_seconds below the sweep's floor
Timeouts == {1, 400}            \* timeout_seconds below and above the floor
ClaimSizes == 0..3              \* max_commands
PollSizes == {1, 2}             \* max_commands of the polling device
RoundTimeouts == {0, 1}         \* timeout_seconds: no deadline, and a short one
DeadlineTimeouts == {0, 300}    \* timeout_seconds: no deadline, and the default

-----------------------------------------------------------------------------
(* Values *)

NoneV == -1                         \* Python None / the empty hash field ""
FLOOR == 300                        \* the sweep's fixed cutoff
Truthy(x) == x # NoneV /\ x # 0     \* Python truth of an Optional[int]

NoErr == <<>>                               \* last_error ""
ErrRetry == <<"Timeout, retrying">>
ErrExhaustedEmpty(n) == <<>>                \* the message left empty
ErrExhausted(n) == <<"Timeout after", n, "attempts">>
NoPayload == <<>>                           \* result_payload None

NoObj == [id |-> 0]                 \* no RemoteCommand object in hand

(* the three structures the sweep writes, and the record of the last pass:  *)
(* on = passes are recorded, store and ts = the store at the end of the     *)
(* last pass and that pass's current_ts, rep = the pass now running began   *)
(* at that store and at that timestamp                                      *)
(* the locals of a sweep instance that is not running a pass *)
IdleSweep == [pc |-> "idle", ts |-> 0, ids |-> <<>>, obj |-> NoObj]

Store == <<rec, pending, inflight>>
NoLast == [on |-> FALSE, store |-> <<>>, ts |-> 0, rep |-> FALSE]

Min(a, b) == IF a < b THEN a ELSE b
Range(s) == {s[i] : i \in 1..Len(s)}

(* RemoteCommand(...) as the issuer constructs it, then save() lines 196-204 *)
NewCommand(id, prio, maxAtt, tsec, ts) ==
    [id |-> id, status |-> "pending", priority |-> prio,
     issued_ts |-> ts, sent_ts |-> NoneV, result_ts |-> NoneV,
     timeout_ts |-> IF tsec > 0 THEN ts + tsec ELSE NoneV,
     attempts |-> 0, max_attempts |-> maxAtt, timeout_seconds |-> tsec,
     result_payload |-> NoPayload, last_error |-> NoErr]

(* Redis primitives *)
LPushTwice(q, c) == <<c, c>> \o q      \* the push with the id given twice
LPushAtTail(q, c) == Append(q, c)       \* RPUSH in place of LPUSH
LPush(q, c) == <<c>> \o q
RPush(q, c) == Append(q, c)
RPopValue(q) == q[Len(q)]
RPopRest(q) == SubSeq(q, 1, Len(q) - 1)
ZAdd(z, c, s) == [x \in DOMAIN z \cup {c} |-> IF x = c THEN s ELSE z[x]]
ZRem(z, c) == [x \in DOMAIN z \ {c} |-> z[x]]

(* ZRANGEBYSCORE key lo hi: members by ascending score, then by member *)
RECURSIVE SortByScore(_, _)
SortByScore(z, S) ==
    IF S = {} THEN <<>>
    ELSE LET c == CHOOSE x \in S : \A y \in S :
                      z[x] < z[y] \/ (z[x] = z[y] /\ x <= y)
         IN <<c>> \o SortByScore(z, S \ {c})
ZRangeByScore(z, lo, hi) ==
    SortByScore(z, {c \in DOMAIN z : lo <= z[c] /\ z[c] <= hi})

(* The stored hash holds strings.  A decimal string is modelled by the      *)
(* number it spells, the empty string by EmptyStr, a JSON text by the       *)
(* value it encodes behind the tag "json".                                  *)
EmptyStr == -2                      \* the hash field ""
EmptyJson == <<"">>                 \* the hash field "" of a *_json field

(* _serialize_value: None -> "", an int -> str(value), a dict -> json.dumps *)
SerializeValue(x) == IF x = NoneV THEN EmptyStr ELSE x
SerializeJson(x) == IF x = NoPayload THEN EmptyJson ELSE <<"json">> \o x

(* _deserialize_value with "0" read as empty: `not value` taken on the int *)
DeserializeValueZeroNone(v) == IF v = EmptyStr \/ v = 0 THEN NoneV ELSE v

(* _deserialize_value: "" -> None, else int(value) or json.loads(value) *)
DeserializeValue(v) == IF v = EmptyStr THEN NoneV ELSE v
DeserializeJson(v) == IF v = EmptyJson THEN NoPayload ELSE Tail(v)

(* save lines 208-225: the mapping written by HSET *)
Serialize(obj) ==
    [id |-> obj.id, status |-> obj.status,
     priority |-> SerializeValue(obj.priority),
     issued_ts |-> SerializeValue(obj.issued_ts),
     sent_ts |-> SerializeValue(obj.sent_ts),
     result_ts |-> SerializeValue(obj.result_ts),
     timeout_ts |-> SerializeValue(obj.timeout_ts),
     attempts |-> SerializeValue(obj.attempts),
     max_attempts |-> SerializeValue(obj.max_attempts),
     timeout_seconds |-> SerializeValue(obj.timeout_seconds),
     result_payload_json |-> SerializeJson(obj.result_payload),
     last_error |-> obj.last_error]

(* get lines 54-73: the object built from the hash *)
Deserialize(h) ==
    [id |-> h.id, status |-> h.status,
     priority |-> DeserializeValue(h.priority),
     issued_ts |-> DeserializeValue(h.issued_ts),
     sent_ts |-> DeserializeValue(h.sent_ts),
     result_ts |-> DeserializeValue(h.result_ts),
     timeout_ts |-> DeserializeValue(h.timeout_ts),
     attempts |-> DeserializeValue(h.attempts),
     max_attempts |-> DeserializeValue(h.max_attempts),
     timeout_seconds |-> DeserializeValue(h.timeout_seconds),
     result_payload |-> DeserializeJson(h.result_payload_json),
     last_error |-> h.last_error]

(* HGETALL of a key that does not exist: the hash without fields *)
EmptyHash == <<>>

(* RemoteCommand.get: the object built from the hash, or NoObj (None) when   *)
(* HGETALL returns no field, lines 48-52                                     *)
Get(c) ==
    IF c \in 1..Len(rec) /\ DOMAIN rec[c] # {} THEN Deserialize(rec[c]) ELSE NoObj

-----------------------------------------------------------------------------
(* claim_pending_commands: the Lua script, lines 98-125.  st is            *)
(* [q, z, r, ids]: the pending list, the inflight zset, the hashes, and     *)
(* claimed_ids.                                                             *)

(* the script with LINDEX -1 in place of RPOP: the id stays in the list *)
LuaClaimOneNoPop(st, ts) ==
    LET c == RPopValue(st.q)
    IN [q |-> st.q,
        z |-> ZAdd(st.z, c, ts),
        r |-> [st.r EXCEPT ![c].status = "sent", ![c].sent_ts = ts,
                           ![c].attempts = @ + 1],
        ids |-> Append(st.ids, c)]

(* the script without the HINCRBY of line 121 *)
LuaClaimOneNoIncr(st, ts) ==
    LET c == RPopValue(st.q)
    IN [q |-> RPopRest(st.q),
        z |-> ZAdd(st.z, c, ts),
        r |-> [st.r EXCEPT ![c].status = "sent", ![c].sent_ts = ts],
        ids |-> Append(st.ids, c)]

LuaClaimOne(st, ts) ==
    LET c == RPopValue(st.q)
    IN [q |-> RPopRest(st.q),
        z |-> ZAdd(st.z, c, ts),
        r |-> [st.r EXCEPT ![c].status = "sent", ![c].sent_ts = ts,
                           ![c].attempts = @ + 1],
        ids |-> Append(st.ids, c)]

(* the loop without the test of lines 110-112: on an empty list the ZADD   *)
(* of line 115 runs with the nil id, written 0                              *)
RECURSIVE LuaClaimLoopNoBreak(_, _, _)
LuaClaimLoopNoBreak(n, st, ts) ==
    IF n <= 0 THEN st
    ELSE IF st.q = <<>> THEN [st EXCEPT !.z = ZAdd(st.z, 0, ts)]
    ELSE LuaClaimLoopNoBreak(n - 1, LuaClaimOne(st, ts), ts)

RECURSIVE LuaClaimLoop(_, _, _)
LuaClaimLoop(n, st, ts) ==
    IF n <= 0 \/ st.q = <<>> THEN st
    ELSE LuaClaimLoop(n - 1, LuaClaimOne(st, ts), ts)

CountIn(s, c) == Cardinality({i \in 1..Len(s) : s[i] = c})

(* lines 127-128: the script runs atomically *)
ClaimLua(p, n) ==
    /\ cpc[p] = "idle"
    /\ LET st == LuaClaimLoop(n, [q |-> pending, z |-> inflight, r |-> rec,
                                  ids |-> <<>>], now)
       IN /\ pending' = st.q
          /\ inflight' = st.z
          /\ rec' = st.r
          /\ cids' = [cids EXCEPT ![p] = st.ids]
          /\ nclaimed' = [c \in DOMAIN nclaimed |-> nclaimed[c] + CountIn(st.ids, c)]
    /\ creq' = [creq EXCEPT ![p] = n]
    /\ cret' = [cret EXCEPT ![p] = <<>>]
    /\ cpc' = [cpc EXCEPT ![p] = "fetch"]
    /\ UNCHANGED <<now, byTs, spc, sobj, held, rpc, robj, wpc, wts, wids, wobj,
                   ticks, resaves, reported, wlast, wother,
                   others>>

(* lines 130-137 without the test of line 134: every claimed id is kept *)
FetchAllKeepMissing(ids) == ids

(* lines 130-137: get() of every claimed id, in claim order; an id without a *)
(* hash is dropped                                                          *)
RECURSIVE FetchAll(_)
FetchAll(ids) ==
    IF ids = <<>> THEN <<>>
    ELSE (IF Get(Head(ids)) # NoObj THEN <<Head(ids)>> ELSE <<>>) \o FetchAll(Tail(ids))

ClaimFetch(p) ==
    /\ cpc[p] = "fetch"
    /\ cret' = [cret EXCEPT ![p] = FetchAll(cids[p])]
    /\ cids' = [cids EXCEPT ![p] = <<>>]
    /\ cpc' = [cpc EXCEPT ![p] = "ret"]
    /\ UNCHANGED <<now, rec, byTs, pending, inflight, spc, sobj, creq, held,
                   rpc, robj, wpc, wts, wids, wobj, ticks, resaves, nclaimed, reported,
                   wlast, wother,
                   others>>

(* the list is returned to the polling device *)
ClaimReturn(p) ==
    /\ cpc[p] = "ret"
    /\ held' = held \cup Range(cret[p])
    /\ cpc' = [cpc EXCEPT ![p] = "idle"]
    /\ creq' = [creq EXCEPT ![p] = 0]
    /\ cret' = [cret EXCEPT ![p] = <<>>]
    /\ UNCHANGED <<now, rec, byTs, pending, inflight, spc, sobj, cids,
                   rpc, robj, wpc, wts, wids, wobj, ticks, resaves, nclaimed, reported,
                   wlast, wother,
                   others>>

(* another client deletes the hash of a command that a claim call has      *)
(* popped and not yet fetched (DEL of the command key)                       *)
Delete(c) ==
    /\ \E p \in DOMAIN cpc : cpc[p] = "fetch" /\ c \in Range(cids[p])
    /\ DOMAIN rec[c] # {}
    /\ rec' = [rec EXCEPT ![c] = EmptyHash]
    /\ UNCHANGED <<now, byTs, pending, inflight, spc, sobj, cpc, creq, cids, cret,
                   held, rpc, robj, wpc, wts, wids, wobj, ticks, resaves, nclaimed,
                   reported, wlast, wother,
                   others>>

-----------------------------------------------------------------------------
(* save(), lines 194-243 *)

(* lines 196-232 for a new command: the id is fresh, HSET of every field,   *)
(* ZADD to the by_ts index                                                  *)
Issue(prio, maxAtt, tsec) ==
    /\ spc = "idle"
    /\ LET id == Len(rec) + 1
           obj == NewCommand(id, prio, maxAtt, tsec, now)
       IN /\ rec' = Append(rec, Serialize(obj))
          /\ byTs' = ZAdd(byTs, id, obj.issued_ts)
          /\ nclaimed' = ZAdd(nclaimed, id, 0)
          /\ sobj' = obj
    /\ spc' = "enqueue"
    /\ UNCHANGED <<now, pending, inflight, cpc, creq, cids, cret, held, rpc, robj,
                   wpc, wts, wids, wobj, ticks, resaves, reported, wlast, wother,
                   others>>

(* lines 238-241 without the status test of line 235 *)
EnqueueAlways(q, obj) ==
    IF obj.priority > 0 THEN LPush(q, obj.id) ELSE RPush(q, obj.id)

(* lines 234-241 *)
Enqueue(q, obj) ==
    IF obj.status = "pending"
    THEN IF obj.priority > 0 THEN LPush(q, obj.id) ELSE RPush(q, obj.id)
    ELSE q

SaveEnqueue ==
    /\ spc = "enqueue"
    /\ pending' = Enqueue(pending, sobj)
    /\ spc' = "idle"
    /\ sobj' = NoObj
    /\ UNCHANGED <<now, rec, byTs, inflight, cpc, creq, cids, cret, held, rpc, robj,
                   wpc, wts, wids, wobj, ticks, resaves, nclaimed, reported, wlast,
                   wother,
                   others>>

(* a client fetches a stored command: get(), lines 45-73 *)
Fetch(c) ==
    /\ spc = "idle"
    /\ c \in 1..Len(rec)
    /\ sobj' = Get(c)
    /\ spc' = "fetched"
    /\ resaves' = resaves + 1
    /\ UNCHANGED <<now, rec, byTs, pending, inflight, cpc, creq, cids, cret, held,
                   rpc, robj, wpc, wts, wids, wobj, ticks, nclaimed, reported, wlast,
                   wother,
                   others>>

(* lines 196-204 with timeout_ts computed at every save, from the clock *)
SaveStampRecompute(obj, ts) ==
    IF obj.timeout_seconds > 0
    THEN [obj EXCEPT !.timeout_ts = ts + obj.timeout_seconds]
    ELSE obj

(* lines 196-204 on an object that came from get() *)
SaveStamp(obj, ts) ==
    LET o1 == IF Truthy(obj.issued_ts) THEN obj
              ELSE [obj EXCEPT !.issued_ts = ts]
    IN IF ~Truthy(o1.timeout_ts) /\ o1.timeout_seconds > 0
       THEN [o1 EXCEPT !.timeout_ts = o1.issued_ts + o1.timeout_seconds]
       ELSE o1

(* and saves it again: lines 206-232, HSET of every field from the object *)
SaveCopy ==
    /\ spc = "fetched"
    /\ LET obj == SaveStamp(sobj, now)
       IN /\ rec' = [rec EXCEPT ![obj.id] = Serialize(obj)]
          /\ byTs' = ZAdd(byTs, obj.id, obj.issued_ts)
          /\ sobj' = obj
    /\ spc' = "enqueue"
    /\ UNCHANGED <<now, pending, inflight, cpc, creq, cids, cret, held, rpc, robj,
                   wpc, wts, wids, wobj, ticks, resaves, nclaimed, reported, wlast,
                   wother,
                   others>>

-----------------------------------------------------------------------------
(* update_status(), lines 245-273, called on the object a handler got       *)

(* the fields of the object that update_status reads *)
ReportView(obj) ==
    IF obj = NoObj THEN NoObj
    ELSE [id |-> obj.id, result_ts |-> obj.result_ts, last_error |-> obj.last_error,
          result_payload |-> obj.result_payload]

(* the fields the sweep still reads once the command is classified *)
SweepView(obj) ==
    [id |-> obj.id, attempts |-> obj.attempts, result_ts |-> obj.result_ts,
     last_error |-> obj.last_error, result_payload |-> obj.result_payload]

(* the assignments without the result_ts stamp of line 250 *)
StatusAppliedNoStamp(obj, status, err, payload, ts) ==
    [id |-> obj.id,
     status |-> status,
     result_ts |-> obj.result_ts,
     last_error |-> IF err # NoErr THEN err ELSE obj.last_error,
     result_payload |-> IF payload # NoPayload THEN payload ELSE obj.result_payload]

(* lines 247-260: the object's fields after the assignments *)
StatusApplied(obj, status, err, payload, ts) ==
    [id |-> obj.id,
     status |-> status,
     result_ts |-> IF status \in {"success", "failed"} THEN ts ELSE obj.result_ts,
     last_error |-> IF err # NoErr THEN err ELSE obj.last_error,
     result_payload |-> IF payload # NoPayload THEN payload ELSE obj.result_payload]

(* lines 262-273 made conditional on the stored status being sent *)
StatusHSetIfSent(r, obj) ==
    IF r[obj.id].status # "sent" THEN r
    ELSE [r EXCEPT ![obj.id].status = obj.status,
                   ![obj.id].last_error = obj.last_error,
                   ![obj.id].result_payload_json = SerializeJson(obj.result_payload),
                   ![obj.id].result_ts = IF Truthy(obj.result_ts)
                                         THEN SerializeValue(obj.result_ts) ELSE @]

(* lines 262-273: HSET of status, last_error, result_payload_json, and of   *)
(* result_ts when the object has one                                        *)
StatusHSet(r, obj) ==
    [r EXCEPT ![obj.id].status = obj.status,
              ![obj.id].last_error = obj.last_error,
              ![obj.id].result_payload_json = SerializeJson(obj.result_payload),
              ![obj.id].result_ts = IF Truthy(obj.result_ts)
                                    THEN SerializeValue(obj.result_ts) ELSE @]

(* what a device reports: status, error message, result payload *)
Reports ==
    {[status |-> "success", error |-> NoErr, payload |-> <<"res">>],
     [status |-> "failed", error |-> <<"err">>, payload |-> NoPayload]}

(* the result handler looks the command up *)
ReportGet(c) ==
    /\ rpc = "idle"
    /\ c \in held
    /\ held' = held \ {c}
    /\ reported' = reported \cup {c}
    /\ robj' = ReportView(Get(c))
    /\ rpc' = "update"
    /\ UNCHANGED <<now, rec, byTs, pending, inflight, spc, sobj, cpc, creq, cids, cret,
                   wpc, wts, wids, wobj, ticks, resaves, nclaimed, wlast, wother,
                   others>>

(* update_status(status, error, payload), lines 247-260: ZREM from inflight *)
ReportZrem(rep) ==
    /\ rpc = "update"
    /\ robj' = StatusApplied(robj, rep.status, rep.error, rep.payload, now)
    /\ inflight' = ZRem(inflight, robj.id)
    /\ rpc' = "hset"
    /\ UNCHANGED <<now, rec, byTs, pending, spc, sobj, cpc, creq, cids, cret, held,
                   wpc, wts, wids, wobj, ticks, resaves, nclaimed, reported, wlast,
                   wother,
                   others>>

(* lines 262-273 *)
ReportHSet ==
    /\ rpc = "hset"
    /\ rec' = StatusHSet(rec, robj)
    /\ rpc' = "idle"
    /\ robj' = NoObj
    /\ UNCHANGED <<now, byTs, pending, inflight, spc, sobj, cpc, creq, cids, cret, held,
                   wpc, wts, wids, wobj, ticks, resaves, nclaimed, reported, wlast,
                   wother,
                   others>>

-----------------------------------------------------------------------------
(* recover_timed_out_commands(device_id), lines 139-192 *)

(* lines 145, 165-172 *)
SweepStart ==
    /\ wpc = "idle"
    /\ wts' = now
    /\ wids' = ZRangeByScore(inflight, 0, now - FLOOR)
    /\ wpc' = "loop"
    /\ wlast' = IF wlast.on
                THEN [wlast EXCEPT !.rep = (wlast.store = Store /\ wlast.ts = now)]
                ELSE wlast
    /\ UNCHANGED <<now, rec, byTs, pending, inflight, spc, sobj, cpc, creq, cids, cret,
                   held, rpc, robj, wobj, ticks, resaves, nclaimed, reported, wother,
                   others>>

(* lines 174-184: the next candidate is fetched and classified *)
(* the classification with > in place of >= on line 184 *)
SweepBranchOffByOne(cmd, ts) ==
    IF cmd = NoObj THEN "loop"
    ELSE IF Truthy(cmd.timeout_ts) /\ ts < cmd.timeout_ts THEN "loop"
    ELSE IF cmd.attempts > cmd.max_attempts THEN "fail"
    ELSE "requeue"

(* the classification without the deadline test of lines 179-181 *)
SweepBranchNoDeadline(cmd, ts) ==
    IF cmd = NoObj THEN "loop"
    ELSE IF cmd.attempts >= cmd.max_attempts THEN "fail"
    ELSE "requeue"

SweepBranch(cmd, ts) ==
    IF cmd = NoObj THEN "loop"
    ELSE IF Truthy(cmd.timeout_ts) /\ ts < cmd.timeout_ts THEN "loop"
    ELSE IF cmd.attempts >= cmd.max_attempts THEN "fail"
    ELSE "requeue"

SweepNext ==
    /\ wpc = "loop"
    /\ IF wids = <<>>
       THEN /\ wpc' = "idle"
            /\ wts' = 0
            /\ wlast' = IF wlast.on
                        THEN [wlast EXCEPT !.store = Store, !.ts = wts, !.rep = FALSE]
                        ELSE wlast
            /\ UNCHANGED <<wids, wobj,
                           others>>
       ELSE LET cmd == Get(Head(wids))
                br == SweepBranch(cmd, wts)
            IN /\ wids' = Tail(wids)
               /\ wpc' = br
               /\ wobj' = IF br = "loop" THEN NoObj ELSE SweepView(cmd)
               /\ UNCHANGED <<wts, wlast,
                              others>>
    /\ UNCHANGED <<now, rec, byTs, pending, inflight, spc, sobj, cpc, creq, cids, cret,
                   held, rpc, robj, ticks, resaves, nclaimed, reported, wother,
                   others>>

(* line 186: update_status('failed', ...), lines 247-257: ZREM *)
SweepFailZrem ==
    /\ wpc = "fail"
    /\ wobj' = StatusApplied(wobj, "failed", ErrExhausted(wobj.attempts), NoPayload, now)
    /\ inflight' = ZRem(inflight, wobj.id)
    /\ wpc' = "fail_hset"
    /\ UNCHANGED <<now, rec, byTs, pending, spc, sobj, cpc, creq, cids, cret, held,
                   rpc, robj, wts, wids, ticks, resaves, nclaimed, reported, wlast,
                   wother,
                   others>>

(* line 186: update_status('failed', ...), lines 262-273: HSET *)
SweepFailHSet ==
    /\ wpc = "fail_hset"
    /\ rec' = StatusHSet(rec, wobj)
    /\ wpc' = "fail_zrem"
    /\ UNCHANGED <<now, byTs, pending, inflight, spc, sobj, cpc, creq, cids, cret, held,
                   rpc, robj, wts, wids, wobj, ticks, resaves, nclaimed, reported,
                   wlast, wother,
                   others>>

(* line 187 *)
SweepFailZrem2 ==
    /\ wpc = "fail_zrem"
    /\ inflight' = ZRem(inflight, wobj.id)
    /\ wpc' = "loop"
    /\ wobj' = NoObj
    /\ UNCHANGED <<now, rec, byTs, pending, spc, sobj, cpc, creq, cids, cret, held,
                   rpc, robj, wts, wids, ticks, resaves, nclaimed, reported, wlast,
                   wother,
                   others>>

(* line 190: update_status('pending', 'Timeout, retrying'): HSET only *)
SweepRequeueHSet ==
    /\ wpc = "requeue"
    /\ LET obj == StatusApplied(wobj, "pending", ErrRetry, NoPayload, now)
       IN /\ wobj' = obj
          /\ rec' = StatusHSet(rec, obj)
    /\ wpc' = "requeue_lpush"
    /\ UNCHANGED <<now, byTs, pending, inflight, spc, sobj, cpc, creq, cids, cret, held,
                   rpc, robj, wts, wids, ticks, resaves, nclaimed, reported, wlast,
                   wother,
                   others>>

(* lines 191-192 as one call: the push and the ZREM in a single step *)
SweepRequeueLPushZrem ==
    /\ wpc = "requeue_lpush"
    /\ pending' = LPush(pending, wobj.id)
    /\ inflight' = ZRem(inflight, wobj.id)
    /\ wpc' = "requeue_zrem"
    /\ UNCHANGED <<now, rec, byTs, spc, sobj, cpc, creq, cids, cret, held,
                   rpc, robj, wts, wids, wobj, ticks, resaves, nclaimed, reported,
                   wlast, wother,
                   others>>

(* line 191 *)
SweepRequeueLPush ==
    /\ wpc = "requeue_lpush"
    /\ pending' = LPush(pending, wobj.id)
    /\ wpc' = "requeue_zrem"
    /\ UNCHANGED <<now, rec, byTs, inflight, spc, sobj, cpc, creq, cids, cret, held,
                   rpc, robj, wts, wids, wobj, ticks, resaves, nclaimed, reported,
                   wlast, wother,
                   others>>

(* the requeue without the ZREM of line 192: the id stays in inflight *)
SweepRequeueNoZrem ==
    /\ wpc = "requeue_zrem"
    /\ wpc' = "loop"
    /\ wobj' = NoObj
    /\ UNCHANGED <<now, rec, byTs, pending, inflight, spc, sobj, cpc, creq, cids, cret,
                   held, rpc, robj, wts, wids, ticks, resaves, nclaimed, reported, wlast,
                   wother,
                   others>>

(* line 192 *)
SweepRequeueZrem ==
    /\ wpc = "requeue_zrem"
    /\ inflight' = ZRem(inflight, wobj.id)
    /\ wpc' = "loop"
    /\ wobj' = NoObj
    /\ UNCHANGED <<now, rec, byTs, pending, spc, sobj, cpc, creq, cids, cret, held,
                   rpc, robj, wts, wids, ticks, resaves, nclaimed, reported, wlast,
                   wother,
                   others>>

(* two scheduler processes run recover_timed_out_commands: the instance    *)
(* that steps next changes; wpc, wts, wids, wobj are the locals of the one  *)
(* stepping, wother those of the one waiting                                *)
SweepSwitch ==
    /\ wother' = [pc |-> wpc, ts |-> wts, ids |-> wids, obj |-> wobj]
    /\ wpc' = wother.pc
    /\ wts' = wother.ts
    /\ wids' = wother.ids
    /\ wobj' = wother.obj
    /\ UNCHANGED <<now, rec, byTs, pending, inflight, spc, sobj, cpc, creq, cids, cret,
                   held, rpc, robj, ticks, resaves, nclaimed, reported, wlast,
                   others>>

Sweep ==
    \/ SweepStart
    \/ SweepNext
    \/ SweepFailZrem
    \/ SweepFailHSet
    \/ SweepFailZrem2
    \/ SweepRequeueHSet
    \/ SweepRequeueLPush
    \/ SweepRequeueZrem

-----------------------------------------------------------------------------
(* the clock *)
Tick(d) ==
    /\ now' = now + d
    /\ ticks' = ticks + 1
    /\ UNCHANGED <<rec, byTs, pending, inflight, spc, sobj, cpc, creq, cids, cret,
                   held, rpc, robj, wpc, wts, wids, wobj, resaves, nclaimed, reported,
                   wlast, wother,
                   others>>

-----------------------------------------------------------------------------
Callers == 1..NCallers

InitScan ==
    /\ dinfl = {}
    /\ dpend = {}
    /\ swept = {}

(* the commands a batch may refer to: (device id, command id).  A device id  *)
(* is written as its pieces between '|', so <<"A", "B">> is the id "A|B"; a  *)
(* command id comes from generate_id('cmd_') and holds no '|'.               *)
BatchCommands ==
    {<<<<"A">>, "cmd_1">>, <<<<"A">>, "cmd_2">>, <<<<"A", "B">>, "cmd_1">>}
Statuses == {"pending", "sent", "success", "failed"}
Missing == "missing"                    \* get() returns None
Totals == {0, 2}                        \* total_commands given by the creator
NoBatch == [total_commands |-> NoneV, completed_commands |-> NoneV,
            failed_commands |-> NoneV]

InitBatch ==
    /\ bset = {}
    /\ bhash = EmptyHash
    /\ bobj = NoBatch
    /\ cstat = [k \in BatchCommands |-> Missing]
    /\ nadds = 0

(* Device (device.py 15-161) and its indexes (redis_utils.py 190-220) *)
Devices == {"CM001"}
DeviceStatuses == <<"online", "offline", "maintenance", "error">>   \* old_statuses
Merchants == {"m1", "m2"}
NoMerchant == "None"                    \* merchant_id = None
NoDevice == [status |-> "", merchant_id |-> "", stored |-> FALSE]

InitDevice ==
    /\ dhash = [d \in Devices |-> NoDevice]
    /\ dobj = [d \in Devices |-> NoDevice]
    /\ idxStatus = [st \in Range(DeviceStatuses) |-> {}]
    /\ idxMerchant = [m \in Merchants |-> {}]

(* DeviceBin (material.py 106-251).  The amounts are floats; the values     *)
(* below are whole numbers and the capacities powers of two, so that        *)
(* remaining / capacity * 100 is exact in float arithmetic.                 *)
BinIndex == 0                           \* bin_index of the bin
Holders == {1, 2}                       \* callers holding an object of the bin
Remainings == {0, 1, 4}                 \* remaining of a new DeviceBin
Capacities == {0, 4}                    \* capacity
Thresholds == {25, 50}                  \* threshold_low_pct
Amounts == {0, 1, 3}                    \* the amount of update_remaining/refill/consume
NoAmount == -1                          \* refill(amount=None)
NoBin == [remaining |-> NoneV, capacity |-> NoneV, threshold_low_pct |-> NoneV]

InitBin ==
    /\ binhash = EmptyHash
    /\ binobj = [h \in Holders |-> NoBin]
    /\ lowbins = {}

(* Order (order.py 15-172) *)
OrderIds == {"ord_1", "ord_2", "ord_3"}
Days == {20240101, 20240102}            \* the day of server_ts, as get_day_key
AmountsCents == {100, 250}              \* total_amount_cents
NoOrder == [total_amount_cents |-> 0, day |-> 0, payment_status |-> "", stored |-> FALSE]

InitOrder ==
    /\ ohash = [o \in OrderIds |-> NoOrder]
    /\ dayCount = [d \in Days |-> 0]
    /\ dayRevenue = [d \in Days |-> 0]
    /\ nsaves = 0

InitOthers ==
    /\ InitScan
    /\ InitBatch
    /\ InitDevice
    /\ InitBin
    /\ InitOrder

Init ==
    /\ now = 1000
    /\ rec = <<>>
    /\ byTs = <<>>
    /\ pending = <<>>
    /\ inflight = <<>>
    /\ spc = "idle"
    /\ sobj = NoObj
    /\ cpc = [p \in Callers |-> "idle"]
    /\ creq = [p \in Callers |-> 0]
    /\ cids = [p \in Callers |-> <<>>]
    /\ cret = [p \in Callers |-> <<>>]
    /\ held = {}
    /\ rpc = "idle"
    /\ robj = NoObj
    /\ wpc = "idle"
    /\ wts = 0
    /\ wids = <<>>
    /\ wobj = NoObj
    /\ ticks = 0
    /\ resaves = 0
    /\ nclaimed = <<>>
    /\ reported = {}
    /\ wlast = NoLast
    /\ wother = IdleSweep
    /\ InitOthers

(* Spec: issue, claim by the polling device, device reports, one sweep      *)
(* instance and the clock, every Redis call of one interleaved with the     *)
(* calls of the others                                                      *)
Next ==
    \/ /\ Len(rec) < MaxCmds
       /\ \E prio \in Priorities, m \in RetryLimits, t \in ShortTimeouts :
             Issue(prio, m, t)
    \/ SaveEnqueue
    \/ \E n \in PollSizes : ClaimLua(1, n)
    \/ ClaimFetch(1)
    \/ ClaimReturn(1)
    \/ \E c \in held : ReportGet(c)
    \/ \E rep \in Reports : ReportZrem(rep)
    \/ ReportHSet
    \/ Sweep
    \/ /\ ticks < MaxTicks
       /\ Tick(FLOOR)

Spec == Init /\ [][Next]_vars

(* SpecClaim: commands are issued, then callers claim concurrently, one     *)
(* call each; nothing else runs                                             *)
NextClaim ==
    \/ /\ Len(rec) < MaxPending
       /\ \A p \in Callers : cpc[p] = "idle"
       /\ \E prio \in Priorities, m \in AttemptLimits, t \in ShortTimeouts :
             Issue(prio, m, t)
    \/ SaveEnqueue
    \/ /\ spc = "idle"
       /\ \E p \in Callers, n \in ClaimSizes : ClaimLua(p, n)
    \/ \E p \in Callers : ClaimFetch(p)

SpecClaim == Init /\ [][NextClaim]_vars

(* A method call that has made some of its Redis calls and not the last *)
InCall ==
    \/ spc = "enqueue"
    \/ \E p \in Callers : cpc[p] = "fetch"
    \/ rpc = "hset"
    \/ wpc # "idle"

(* SpecSeq: issue, claim, one sweep instance and the clock; no device ever  *)
(* reports, and the method calls (save, claim_pending_commands,             *)
(* recover_timed_out_commands) run one after another                        *)
NextSeq ==
    \/ /\ ~InCall
       /\ Len(rec) < SeqCmds
       /\ \E prio \in Priorities, m \in RetryLimits, t \in Timeouts : Issue(prio, m, t)
    \/ SaveEnqueue
    \/ /\ ~InCall
       /\ \E n \in PollSizes : ClaimLua(1, n)
    \/ ClaimFetch(1)
    \/ /\ ~InCall
       /\ ClaimReturn(1)
    \/ /\ ~InCall
       /\ SweepStart
    \/ SweepNext
    \/ SweepFailZrem
    \/ SweepFailHSet
    \/ SweepFailZrem2
    \/ SweepRequeueHSet
    \/ SweepRequeueLPush
    \/ SweepRequeueZrem
    \/ /\ ~InCall
       /\ ticks < SeqTicks
       /\ Tick(FLOOR)

SpecSeq == Init /\ [][NextSeq]_vars

(* SpecResave: SpecSeq plus a client that fetches a stored command with     *)
(* get() and later calls save() on the object                               *)
NextResave ==
    \/ NextSeq
    \/ /\ ~InCall
       /\ resaves < MaxResaves
       /\ \E c \in 1..Len(rec) : Fetch(c)
    \/ /\ ~InCall
       /\ SaveCopy

SpecResave == Init /\ [][NextResave]_vars

(* SpecIdem: the calls run one after another as in SpecSeq, and the store   *)
(* each finished sweep pass leaves is recorded                              *)
InitIdem ==
    /\ now = 1000
    /\ rec = <<>>
    /\ byTs = <<>>
    /\ pending = <<>>
    /\ inflight = <<>>
    /\ spc = "idle"
    /\ sobj = NoObj
    /\ cpc = [p \in Callers |-> "idle"]
    /\ creq = [p \in Callers |-> 0]
    /\ cids = [p \in Callers |-> <<>>]
    /\ cret = [p \in Callers |-> <<>>]
    /\ held = {}
    /\ rpc = "idle"
    /\ robj = NoObj
    /\ wpc = "idle"
    /\ wts = 0
    /\ wids = <<>>
    /\ wobj = NoObj
    /\ ticks = 0
    /\ resaves = 0
    /\ nclaimed = <<>>
    /\ reported = {}
    /\ wlast = [NoLast EXCEPT !.on = TRUE]
    /\ wother = IdleSweep
    /\ InitOthers

NextIdem ==
    \/ /\ ~InCall
       /\ Len(rec) < IdemCmds
       /\ \E prio \in Priorities, m \in RetryLimits, t \in Timeouts : Issue(prio, m, t)
    \/ SaveEnqueue
    \/ /\ ~InCall
       /\ \E n \in PollSizes : ClaimLua(1, n)
    \/ ClaimFetch(1)
    \/ /\ ~InCall
       /\ ClaimReturn(1)
    \/ /\ ~InCall
       /\ SweepStart
    \/ SweepNext
    \/ SweepFailZrem
    \/ SweepFailHSet
    \/ SweepFailZrem2
    \/ SweepRequeueHSet
    \/ SweepRequeueLPush
    \/ SweepRequeueZrem
    \/ /\ ~InCall
       /\ ticks < IdemTicks
       /\ Tick(FLOOR)

SpecIdem == InitIdem /\ [][NextIdem]_vars

(* SpecFair: Spec with the scheduling the deployment relies on.  Commands   *)
(* are issued before the clock first advances; a started call runs to its   *)
(* end, the device keeps polling and the sweep keeps running (weak          *)
(* fairness); a device may never report.  The clock advances by the         *)
(* sweep's floor, and only when no save, report or sweep is between its     *)
(* Redis calls, the device has polled the pending list empty and the sweep  *)
(* has left nothing due: polls and sweeps come more often than once in 300  *)
(* seconds.  Time always advances, so the guarded clock step is strongly    *)
(* fair.                                                                    *)
Quiesced ==
    /\ spc = "idle"
    /\ rpc = "idle"
    /\ wpc = "idle"
    /\ pending = <<>>
    /\ \A c \in 1..Len(rec) :
          ~(/\ c \in DOMAIN inflight
            /\ inflight[c] <= now - FLOOR
            /\ ~(Truthy(Get(c).timeout_ts) /\ now < Get(c).timeout_ts))

FairIssue ==
    /\ ticks = 0
    /\ Len(rec) < FairCmds
    /\ \E prio \in Priorities, m \in RetryLimits, t \in ShortTimeouts :
          Issue(prio, m, t)

Poll == \E n \in PollSizes : ClaimLua(1, n)

ReportUpdate == \E rep \in Reports : ReportZrem(rep)

FairTick ==
    /\ Quiesced
    /\ ticks < FairTicks
    /\ Tick(FLOOR)

NextFair ==
    \/ FairIssue
    \/ SaveEnqueue
    \/ Poll
    \/ ClaimFetch(1)
    \/ ClaimReturn(1)
    \/ \E c \in held : ReportGet(c)
    \/ ReportUpdate
    \/ ReportHSet
    \/ Sweep
    \/ FairTick

SpecFair ==
    /\ Init
    /\ [][NextFair]_vars
    /\ WF_vars(SaveEnqueue)
    /\ WF_vars(Poll)
    /\ WF_vars(ClaimFetch(1))
    /\ WF_vars(ClaimReturn(1))
    /\ WF_vars(ReportUpdate)
    /\ WF_vars(ReportHSet)
    /\ WF_vars(Sweep)
    /\ SF_vars(FairTick)

-----------------------------------------------------------------------------
(* Properties *)

Ids == 1..Len(rec)
InPending(c) == c \in Range(pending)
InInflight(c) == c \in DOMAIN inflight
Terminal == {"success", "failed"}
IndexOf(s, c) == CHOOSE i \in 1..Len(s) : s[i] = c

(* no client is inside a method call or between the calls of a handler *)
AllIdle ==
    /\ spc = "idle"
    /\ \A p \in Callers : cpc[p] = "idle"
    /\ rpc = "idle"
    /\ wpc = "idle"

RECURSIVE SumReq(_)
SumReq(S) ==
    IF S = {} THEN 0
    ELSE LET p == CHOOSE x \in S : TRUE IN creq[p] + SumReq(S \ {p})

Returned == {p \in Callers : cpc[p] = "ret"}

(* lines 170-181: the sweep that reads the clock at ts would recover c *)
SweepDue(c, ts) ==
    /\ InInflight(c)
    /\ inflight[c] <= ts - FLOOR
    /\ ~(Truthy(Get(c).timeout_ts) /\ ts < Get(c).timeout_ts)

(* C1: concurrent claim calls against one device return disjoint lists of   *)
(* distinct ids, and once every started call has returned, the union of     *)
(* the lists has min(K, sum of max_commands) ids, K the number of pending   *)
(* commands the device had when the calls began.                            *)
C1_ExactlyOnceClaim ==
    /\ \A p \in Returned : Cardinality(Range(cret[p])) = Len(cret[p])
    /\ \A p, q \in Returned : p # q => Range(cret[p]) \cap Range(cret[q]) = {}
    /\ (\A p \in Callers : cpc[p] # "fetch") =>
          Cardinality(UNION {Range(cret[p]) : p \in Returned})
            = Min(Len(rec), SumReq(Returned))

C1_Witness ==
    /\ Len(rec) = 3
    /\ Returned = Callers
    /\ \A p \in Callers : cret[p] # <<>>
    /\ SumReq(Callers) > 3

(* C2: no command id is at once in the pending list and in the inflight     *)
(* zset, in any reachable state.                                            *)
C2_NeverPendingAndInflight ==
    \A c \in Ids : ~(InPending(c) /\ InInflight(c))

(* C3: queue membership matches the stored status: pending => in the        *)
(* pending list, sent => in the inflight zset, success/failed => in         *)
(* neither.  Stated for the states in which no call is in progress, which   *)
(* are among the reachable states the claim speaks of.                      *)
C3_MembershipMatchesStatus ==
    AllIdle =>
      \A c \in Ids :
        /\ rec[c].status = "pending" => InPending(c)
        /\ rec[c].status = "sent" => InInflight(c)
        /\ rec[c].status \in Terminal => ~InPending(c) /\ ~InInflight(c)

(* C4: once the claim call and the sweep pass have finished, a command no   *)
(* device reported on whose status is pending or sent is in the pending     *)
(* list or in the inflight zset.                                            *)
C4_NoCommandLost ==
    AllIdle =>
      \A c \in Ids \ reported :
        rec[c].status \in {"pending", "sent"} => InPending(c) \/ InInflight(c)

(* C5: a command whose status is success or failed stays terminal in every  *)
(* step.                                                                    *)
C5_TerminalStaysTerminal ==
    [][\A c \in Ids : rec[c].status \in Terminal => rec'[c].status \in Terminal]_vars

(* C6: the stored attempts of every command equals the number of times the  *)
(* claim script popped it.                                                  *)
C6_AttemptsCountClaims ==
    \A c \in Ids : rec[c].attempts = nclaimed[c]

(* C7: attempts never exceeds max_attempts, for every max_attempts >= 0.    *)
C7_AttemptsBounded ==
    \A c \in Ids : rec[c].attempts <= rec[c].max_attempts

(* C8: in a claim's result a command of priority > 0 comes before every     *)
(* command of priority 0; commands issued with priorities [0, 5, 0] and     *)
(* claimed with max_commands = 3 are returned as [second, first, third].    *)
C8_PriorityClaimedFirst ==
    \A p \in Returned :
      /\ \A i, j \in 1..Len(cret[p]) :
            (rec[cret[p][i]].priority = 0 /\ rec[cret[p][j]].priority > 0) => j < i
      /\ ( /\ Len(rec) = 3
           /\ rec[1].priority = 0 /\ rec[2].priority = 5 /\ rec[3].priority = 0
           /\ creq[p] = 3 /\ Len(cret[p]) = 3 ) => cret[p] = <<2, 1, 3>>

(* C9: priority-0 commands are claimed in issue order: B is not claimed     *)
(* while A, issued before it, is still pending, and in one result A comes   *)
(* before B.                                                                *)
C9_FifoAmongPriorityZero ==
    \A a, b \in Ids :
      (a < b /\ rec[a].priority = 0 /\ rec[b].priority = 0) =>
        /\ nclaimed[b] > 0 => nclaimed[a] > 0
        /\ \A p \in Returned :
              (a \in Range(cret[p]) /\ b \in Range(cret[p])) =>
                IndexOf(cret[p], a) < IndexOf(cret[p], b)

(* C10: with claims and sweeps run one after another and no device report,  *)
(* a command with max_attempts = M >= 1 is claimed at most M times and its  *)
(* attempts is the number of its claims; while pending it has been claimed  *)
(* fewer than M times; it is failed only after exactly M claims and is then *)
(* in neither structure; and a sweep pass leaves no command in inflight     *)
(* whose claim is 300 seconds old and whose timeout_ts has passed.          *)
C10_RetryThenFail ==
    \A c \in Ids :
      rec[c].max_attempts >= 1 =>
        /\ rec[c].attempts = nclaimed[c]
        /\ nclaimed[c] <= rec[c].max_attempts
        /\ rec[c].status \in {"pending", "sent", "failed"}
        /\ rec[c].status = "pending" => nclaimed[c] < rec[c].max_attempts
        /\ rec[c].status = "failed" =>
              /\ nclaimed[c] = rec[c].max_attempts
              /\ ~InInflight(c)
              /\ ~InPending(c)
        /\ (wpc = "loop" /\ wids = <<>>) => ~SweepDue(c, wts)

C10_Witness ==
    \E c \in Ids :
      /\ rec[c].max_attempts = 2
      /\ rec[c].status = "failed"
      /\ nclaimed[c] = 2
      /\ wpc = "idle"

(* C11: under fairness (calls finish, the device keeps polling, the sweep   *)
(* keeps running, time advances) every issued command eventually has        *)
(* status success or failed.                                                *)
C11_EventuallyTerminal ==
    \A c \in 1..FairCmds :
      (c \in Ids) ~> (c \in Ids /\ rec[c].status \in Terminal)

(* C12: a sweep pass that begins in the store the previous pass left, at    *)
(* the previous pass's timestamp, changes no command record, nor the        *)
(* pending list, nor the inflight zset.                                     *)
C12_SweepIdempotent ==
    (wlast.rep /\ wpc # "idle") => Store = wlast.store

C12_Witness ==
    /\ wlast.rep
    /\ wpc = "loop"
    /\ wids = <<>>
    /\ \E c \in Ids : rec[c].status = "pending" /\ rec[c].last_error = ErrRetry

(* SpecRound: every method call runs to its end before the next begins;    *)
(* commands are issued, claimed, reported on as succeeded or failed, and    *)
(* fetched with get() and saved again at once                               *)
NextRound ==
    \/ /\ AllIdle
       /\ Len(rec) < RoundCmds
       /\ \E prio \in Priorities, m \in RetryLimits, t \in RoundTimeouts :
             Issue(prio, m, t)
    \/ SaveEnqueue
    \/ /\ AllIdle
       /\ Poll
    \/ ClaimFetch(1)
    \/ ClaimReturn(1)
    \/ /\ AllIdle
       /\ \E c \in held : ReportGet(c)
    \/ ReportUpdate
    \/ ReportHSet
    \/ /\ AllIdle
       /\ resaves < MaxResaves
       /\ \E c \in 1..Len(rec) : Fetch(c)
    \/ SaveCopy

SpecRound == Init /\ [][NextRound]_vars

C14_EmptyClaimNoChange ==
    [][\A p \in Callers :
         /\ (cpc[p] = "idle" /\ cpc'[p] = "fetch" /\ pending = <<>>) =>
               (rec' = rec /\ pending' = <<>> /\ inflight' = inflight
                  /\ cids'[p] = <<>>)
         /\ (cpc[p] = "fetch" /\ cpc'[p] = "ret" /\ cids[p] = <<>>) =>
               cret'[p] = <<>>]_vars

C14_Witness ==
    \E p \in Callers :
      /\ cpc[p] = "ret"
      /\ creq[p] = 3
      /\ cret[p] = <<>>
      /\ inflight # <<>>
      /\ \E q \in Callers : cret[q] # <<>>

-----------------------------------------------------------------------------
(* Redis keys.  A key is written as the sequence of its ':'-separated       *)
(* segments, a device id as the sequence of its own segments: a device id   *)
(* comes from the URL and may hold ':'.  A command id comes from            *)
(* generate_id('cmd_') and holds none.                                      *)

DeviceIds == {<<"A">>, <<"B">>, <<"A", "cmd">>, <<"A", "q">>, <<"A", "q", "cmd">>,
              <<"A", "cmds">>}
CommandIds == <<"cmd_1", "cmd_2", "cmd_3">>     \* the id of the model's command c

(* the same key without the device id *)
DEVICE_COMMANDS_PENDING_SHARED(d) == <<"cm", "q", "cmd", "pending">>

DEVICE_COMMAND(d, c) == <<"cm", "dev">> \o d \o <<"cmd", c>>
DEVICE_COMMANDS_PENDING(d) == <<"cm", "dev">> \o d \o <<"q", "cmd", "pending">>
DEVICE_COMMANDS_INFLIGHT(d) == <<"cm", "dev">> \o d \o <<"cmd", "inflight">>
DEVICE_COMMANDS_BY_TS(d) == <<"cm", "dev">> \o d \o <<"cmds", "by_ts">>

(* every key that holds a command structure of device d *)
DeviceKeys(d) ==
    {DEVICE_COMMANDS_PENDING(d), DEVICE_COMMANDS_INFLIGHT(d), DEVICE_COMMANDS_BY_TS(d)}
      \cup {DEVICE_COMMAND(d, CommandIds[i]) : i \in 1..Len(CommandIds)}

(* the keys whose value this step changes, when the operation runs for      *)
(* device d                                                                 *)
Written(d) ==
    (IF pending' # pending THEN {DEVICE_COMMANDS_PENDING(d)} ELSE {})
      \cup (IF inflight' # inflight THEN {DEVICE_COMMANDS_INFLIGHT(d)} ELSE {})
      \cup (IF byTs' # byTs THEN {DEVICE_COMMANDS_BY_TS(d)} ELSE {})
      \cup {DEVICE_COMMAND(d, CommandIds[c]) :
               c \in {x \in 1..Len(rec') : x > Len(rec) \/ rec'[x] # rec[x]}}

(* SpecIso: issue, claim, report, sweep and the clock, every method call    *)
(* run to its end before the next begins                                    *)
NextIso ==
    \/ /\ AllIdle
       /\ Len(rec) < IsoCmds
       /\ \E prio \in Priorities, m \in RetryLimits, t \in ShortTimeouts :
             Issue(prio, m, t)
    \/ SaveEnqueue
    \/ /\ AllIdle
       /\ Poll
    \/ ClaimFetch(1)
    \/ ClaimReturn(1)
    \/ /\ AllIdle
       /\ \E c \in held : ReportGet(c)
    \/ ReportUpdate
    \/ ReportHSet
    \/ /\ AllIdle
       /\ SweepStart
    \/ SweepNext
    \/ SweepFailZrem
    \/ SweepFailHSet
    \/ SweepFailZrem2
    \/ SweepRequeueHSet
    \/ SweepRequeueLPush
    \/ SweepRequeueZrem
    \/ /\ AllIdle
       /\ ticks < IsoTicks
       /\ Tick(FLOOR)

SpecIso == Init /\ [][NextIso]_vars

(* C15: a step of issue, claim, report or sweep run for device a changes no *)
(* key that holds a command hash, the pending list, the inflight zset or    *)
(* the by_ts index of another device b.                                     *)
C15_DeviceIsolation ==
    [][\A a, b \in DeviceIds : a # b => Written(a) \cap DeviceKeys(b) = {}]_vars

C15_Witness ==
    \E c \in Ids :
      /\ rec[c].status = "success"
      /\ rec[c].last_error = ErrRetry
      /\ nclaimed[c] = 2
      /\ AllIdle

(* C16: a claim call with max_commands n >= 0 on a pending list of length  *)
(* L takes the min(n, L) ids at the tail, in order from the tail; the ids   *)
(* left keep their order; every id taken is in inflight with the claim      *)
(* timestamp as score and its hash has status sent, sent_ts the claim       *)
(* timestamp and attempts one more per time it was taken; no other hash     *)
(* changes.                                                                 *)
C16_ClaimEffect ==
    [][\A p \in Callers :
         (cpc[p] = "idle" /\ cpc'[p] = "fetch") =>
           LET L == Len(pending)
               k == Min(creq'[p], L)
           IN /\ creq'[p] >= 0
              /\ pending' = SubSeq(pending, 1, L - k)
              /\ Len(cids'[p]) = k
              /\ \A i \in 1..k : cids'[p][i] = pending[L - i + 1]
              /\ \A c \in Range(cids'[p]) :
                    /\ c \in DOMAIN inflight' /\ inflight'[c] = now
                    /\ rec'[c].status = "sent"
                    /\ rec'[c].sent_ts = now
                    /\ rec'[c].attempts = rec[c].attempts + CountIn(cids'[p], c)
              /\ \A c \in Ids \ Range(cids'[p]) : rec'[c] = rec[c]
              /\ \A c \in DOMAIN inflight \ Range(cids'[p]) :
                    c \in DOMAIN inflight' /\ inflight'[c] = inflight[c]]_vars

C16_Witness ==
    \E p \in Callers :
      /\ cpc[p] = "fetch"
      /\ creq[p] = 2
      /\ Len(cids[p]) = 2
      /\ Len(pending) = 1
      /\ \A c \in Range(cids[p]) : rec[c].attempts = 1

(* C17: update_status(success or failed) on a command whose stored status  *)
(* is sent stamps result_ts with the current time, removes the id from the  *)
(* inflight zset, stores the status, the error message when one is given    *)
(* and the result payload when one is given, and leaves attempts, sent_ts,  *)
(* timeout_ts, priority and the pending list as they were.                  *)
C17_ReportEffect ==
    [][/\ (rpc = "update" /\ rpc' = "hset" /\ rec[robj.id].status = "sent") =>
            /\ robj'.status \in Terminal
            /\ robj'.result_ts = now
            /\ robj.id \notin DOMAIN inflight'
            /\ rec' = rec
            /\ pending' = pending
       /\ (rpc = "hset" /\ rpc' = "idle" /\ rec[robj.id].status = "sent") =>
            LET c == robj.id
            IN /\ rec'[c].status = robj.status
               /\ rec'[c].result_ts = robj.result_ts
               /\ robj.status = "failed" => rec'[c].last_error = <<"err">>
               /\ robj.status = "success" =>
                     DeserializeJson(rec'[c].result_payload_json) = <<"res">>
               /\ rec'[c].attempts = rec[c].attempts
               /\ rec'[c].sent_ts = rec[c].sent_ts
               /\ rec'[c].timeout_ts = rec[c].timeout_ts
               /\ rec'[c].priority = rec[c].priority
               /\ pending' = pending
               /\ inflight' = inflight
               /\ \A d \in Ids \ {c} : rec'[d] = rec[d]]_vars

C17_Witness ==
    \E c \in Ids :
      /\ AllIdle
      /\ c \in reported
      /\ rec[c].status = "failed"
      /\ rec[c].last_error = <<"err">>
      /\ rec[c].result_ts = 1300
      /\ rec[c].attempts = 2
      /\ ~InInflight(c)

(* C18: while a command's stored status is success, no claim pops it, the  *)
(* sweep does not set it back to pending and nothing pushes its id onto     *)
(* the pending list.                                                        *)
C18_SuccessIsFinal ==
    [][\A c \in Ids :
         rec[c].status = "success" =>
           /\ nclaimed'[c] = nclaimed[c]
           /\ rec'[c].status # "pending"
           /\ CountIn(pending', c) <= CountIn(pending, c)]_vars

(* C19: no command id occurs more than once in the pending list, in any     *)
(* reachable state.                                                         *)
C19_PendingNoDuplicates ==
    \A c \in Ids : CountIn(pending, c) <= 1

(* SpecTwo: two sweep instances whose Redis calls interleave; issue, claim  *)
(* and the clock step only while no other call is in progress               *)
NextTwo ==
    \/ /\ AllIdle /\ wother.pc = "idle"
       /\ Len(rec) < TwoCmds
       /\ \E prio \in Priorities, m \in RetryLimits, t \in ShortTimeouts :
             Issue(prio, m, t)
    \/ SaveEnqueue
    \/ /\ spc = "idle" /\ cpc[1] = "idle"
       /\ Poll
    \/ ClaimFetch(1)
    \/ ClaimReturn(1)
    \/ /\ spc = "idle" /\ cpc[1] = "idle"
       /\ SweepStart
    \/ SweepNext
    \/ SweepFailZrem
    \/ SweepFailHSet
    \/ SweepFailZrem2
    \/ SweepRequeueHSet
    \/ SweepRequeueLPush
    \/ SweepRequeueZrem
    \/ SweepSwitch
    \/ /\ AllIdle /\ wother.pc = "idle"
       /\ ticks < TwoTicks
       /\ Tick(FLOOR)

SpecTwo == Init /\ [][NextTwo]_vars

(* C20: with two sweep instances both can classify the same timed-out      *)
(* command for requeue and both push its id, so the id is in the pending    *)
(* list up to twice (once per instance) and the command is claimed again    *)
(* once per push: for max_attempts M >= 1 it is claimed up to               *)
(* 1 + 2 * (M - 1) times, more than M, and never more.                      *)
C20_TwoSweepsRequeueTwice ==
    \A c \in Ids :
      /\ CountIn(pending, c) <= 2
      /\ nclaimed[c] <= 1 + 2 * (rec[c].max_attempts - 1)
      /\ rec[c].attempts = nclaimed[c]

C20_Witness ==
    \E c \in Ids :
      /\ rec[c].max_attempts = 2
      /\ nclaimed[c] = 3
      /\ rec[c].status = "sent"
      /\ rec[c].sent_ts = 1300
      /\ ticks = 1

(* SpecQueue: two commands, issue, claim, one sweep instance and the clock, *)
(* every method call run to its end before the next begins; no device       *)
(* reports                                                                  *)
NextQueue ==
    \/ /\ AllIdle
       /\ Len(rec) < QueueCmds
       /\ \E prio \in Priorities, m \in RetryLimits, t \in ShortTimeouts :
             Issue(prio, m, t)
    \/ SaveEnqueue
    \/ /\ AllIdle
       /\ Poll
    \/ ClaimFetch(1)
    \/ ClaimReturn(1)
    \/ /\ AllIdle
       /\ SweepStart
    \/ SweepNext
    \/ SweepFailZrem
    \/ SweepFailHSet
    \/ SweepFailZrem2
    \/ SweepRequeueHSet
    \/ SweepRequeueLPush
    \/ SweepRequeueZrem
    \/ /\ AllIdle
       /\ ticks < QueueTicks
       /\ Tick(FLOOR)

SpecQueue == Init /\ [][NextQueue]_vars

(* a step of the sweep instance that is running a pass, and the step that   *)
(* takes it from position a to position b                                   *)
SweepStep == wpc # "idle" /\ wother' = wother /\ <<wpc, wids>>' # <<wpc, wids>>
SweepMoves(a, b) == wpc = a /\ wpc' = b /\ wother' = wother

(* C21: the sweep's requeue of a command with attempts < max_attempts       *)
(* stores status pending, puts the id at the head of the pending list,      *)
(* whatever its priority, with the ids already there in their order behind  *)
(* it, and removes the id from inflight; every step changes the list only   *)
(* by a push at one end or by pops from the tail, which a claim returns      *)
(* tail first, so the requeued id is claimed after every id that was in the  *)
(* list when it was pushed.                                                  *)
C21_RequeueAtBack ==
    [][ /\ SweepMoves("requeue", "requeue_lpush") =>
             (/\ Get(wobj.id).attempts < Get(wobj.id).max_attempts
              /\ rec'[wobj.id].status = "pending"
              /\ pending' = pending)
        /\ SweepMoves("requeue_lpush", "requeue_zrem") =>
             (pending' = <<wobj.id>> \o pending)
        /\ SweepMoves("requeue_zrem", "loop") =>
             (/\ wobj.id \notin DOMAIN inflight'
              /\ pending' = pending)
        /\ \/ pending' = pending
           \/ \E c \in 1..Len(rec') :
                 pending' = <<c>> \o pending \/ pending' = pending \o <<c>>
           \/ \E k \in 1..Len(pending), p \in Callers :
                 /\ pending' = SubSeq(pending, 1, Len(pending) - k)
                 /\ cids'[p] = [i \in 1..k |-> pending[Len(pending) + 1 - i]]
     ]_vars

C21_Witness ==
    /\ Len(rec) = 2
    /\ rec[1].priority = 5
    /\ rec[2].priority = 0
    /\ nclaimed[1] = 2
    /\ nclaimed[2] = 1
    /\ cpc[1] = "ret"
    /\ cret[1] = <<2, 1>>

(* C22: the sweep's handling of an expired inflight command with attempts   *)
(* >= max_attempts stores status failed, a non-empty last_error and          *)
(* result_ts = the current time, removes the id from inflight, leaves the    *)
(* pending list as it was and leaves attempts as it was.                     *)
C22_FailEffect ==
    [][ /\ SweepMoves("fail", "fail_hset") =>
             (/\ Get(wobj.id).attempts >= Get(wobj.id).max_attempts
              /\ wobj.id \notin DOMAIN inflight'
              /\ pending' = pending
              /\ rec' = rec)
        /\ SweepMoves("fail_hset", "fail_zrem") =>
             (/\ rec'[wobj.id].status = "failed"
              /\ rec'[wobj.id].last_error # NoErr
              /\ rec'[wobj.id].result_ts = SerializeValue(now)
              /\ rec'[wobj.id].attempts = rec[wobj.id].attempts
              /\ \A c \in Ids \ {wobj.id} : rec'[c] = rec[c]
              /\ pending' = pending
              /\ inflight' = inflight)
        /\ SweepMoves("fail_zrem", "loop") =>
             (/\ wobj.id \notin DOMAIN inflight'
              /\ pending' = pending
              /\ rec' = rec)
      ]_vars

C22_Witness ==
    \E c \in Ids :
      /\ wpc = "idle"
      /\ rec[c].status = "failed"
      /\ rec[c].last_error = ErrExhausted(1)
      /\ rec[c].result_ts = 1300
      /\ rec[c].attempts = 1
      /\ rec[c].max_attempts = 1
      /\ ~InPending(c)
      /\ ~InInflight(c)

(* C23: no step of a sweep pass touches a command whose inflight score is    *)
(* newer than the pass's timestamp - 300: its hash, its inflight score and   *)
(* its place in the pending list stay as they were, whatever its             *)
(* timeout_seconds and timeout_ts.                                           *)
C23_FreshClaimUntouched ==
    [][ SweepStep =>
          \A c \in DOMAIN inflight :
             inflight[c] > wts - FLOOR =>
                /\ rec'[c] = rec[c]
                /\ c \in DOMAIN inflight'
                /\ inflight'[c] = inflight[c]
                /\ CountIn(pending', c) = CountIn(pending, c)
      ]_vars

(* C24: no step of a sweep pass touches an inflight command whose           *)
(* timeout_ts is set and later than the pass's timestamp, also when its      *)
(* inflight score is at or below the timestamp - 300: its hash, its          *)
(* inflight score and its place in the pending list stay as they were.       *)
C24_DeadlineNotPassedUntouched ==
    [][ SweepStep =>
          \A c \in DOMAIN inflight :
             (Truthy(Get(c).timeout_ts) /\ wts < Get(c).timeout_ts) =>
                /\ rec'[c] = rec[c]
                /\ c \in DOMAIN inflight'
                /\ inflight'[c] = inflight[c]
                /\ CountIn(pending', c) = CountIn(pending, c)
      ]_vars

C24_Witness ==
    /\ wpc = "loop"
    /\ wids = <<>>
    /\ wts = 1300
    /\ InInflight(1)
    /\ inflight[1] = 1000
    /\ Get(1).timeout_ts = 1400
    /\ Get(1).status = "sent"
    /\ ~InPending(1)

(* C25: a command the sweep has classified for requeue or for failure was   *)
(* last claimed at least timeout_seconds before the pass's timestamp: the    *)
(* timestamp is at or after its inflight score (the time of its most recent  *)
(* claim) plus its timeout_seconds, for first and for retried attempts and   *)
(* for timeout_seconds > 300.                                                *)
C25_FullTimeoutPerAttempt ==
    (wpc \in {"requeue", "fail"} /\ InInflight(wobj.id)) =>
        wts >= inflight[wobj.id] + Get(wobj.id).timeout_seconds

(* is_expired(), lines 279-283, with get_current_ts() = ts *)
IsExpired(obj, ts) ==
    IF ~Truthy(obj.timeout_ts) THEN FALSE ELSE ts > obj.timeout_ts

(* SpecDeadline: one command of priority 0 with no deadline or with the     *)
(* default one; issue, claim, one sweep instance, a client that fetches the  *)
(* command and saves it later, and the clock; a method call runs to its end  *)
(* before the next begins and no device reports                              *)
NextDeadline ==
    \/ /\ ~InCall
       /\ Len(rec) < DeadlineCmds
       /\ \E m \in RetryLimits, t \in DeadlineTimeouts : Issue(0, m, t)
    \/ SaveEnqueue
    \/ /\ ~InCall
       /\ Poll
    \/ ClaimFetch(1)
    \/ /\ ~InCall
       /\ ClaimReturn(1)
    \/ /\ ~InCall
       /\ SweepStart
    \/ SweepNext
    \/ SweepFailZrem
    \/ SweepFailHSet
    \/ SweepFailZrem2
    \/ SweepRequeueHSet
    \/ SweepRequeueLPush
    \/ SweepRequeueZrem
    \/ /\ ~InCall
       /\ resaves < MaxResaves
       /\ \E c \in 1..Len(rec) : Fetch(c)
    \/ /\ ~InCall
       /\ SaveCopy
    \/ /\ ~InCall
       /\ ticks < DeadlineTicks
       /\ Tick(FLOOR)

SpecDeadline == Init /\ [][NextDeadline]_vars

(* C26: every command the sweep has classified for requeue or for failure   *)
(* is one for which is_expired() is true at the pass's timestamp:            *)
(* timeout_ts is set and the timestamp is greater than it.                   *)
C26_SweepAgreesWithIsExpired ==
    (wpc \in {"requeue", "fail"}) => IsExpired(Get(wobj.id), wts)

(* C27: the stored timeout_ts of every command is issued_ts +               *)
(* timeout_seconds when timeout_seconds > 0 and empty otherwise, and no      *)
(* step (claim, update_status, timeout requeue, a later save) changes it.    *)
C27_TimeoutTsSetOnce ==
    [][ \A c \in 1..Len(rec') :
          /\ rec'[c].timeout_ts =
                SerializeValue(IF rec'[c].timeout_seconds > 0
                               THEN rec'[c].issued_ts + rec'[c].timeout_seconds
                               ELSE NoneV)
          /\ c \in Ids => rec'[c].timeout_ts = rec[c].timeout_ts
      ]_vars

C27_Witness ==
    /\ spc = "enqueue"
    /\ resaves = 1
    /\ now = 1300
    /\ sobj.status = "pending"
    /\ sobj.attempts = 1
    /\ sobj.last_error = ErrRetry
    /\ rec[1].timeout_seconds = 300
    /\ rec[1].timeout_ts = 1300

(* C28: save() pushes the command's id onto the pending list only when the  *)
(* command's status is pending (at the head for priority > 0, at the tail    *)
(* otherwise); for status sent, success or failed the pending list stays as  *)
(* it was; and no call of save() changes the inflight zset.                  *)
C28_SaveEnqueuesOnlyPending ==
    [][ /\ (spc # "enqueue" /\ spc' = "enqueue") =>
             (pending' = pending /\ inflight' = inflight)
        /\ (spc = "enqueue" /\ spc' = "idle") =>
             (/\ inflight' = inflight
              /\ sobj.status = rec[sobj.id].status
              /\ sobj.status = "pending" =>
                    pending' = IF sobj.priority > 0 THEN <<sobj.id>> \o pending
                               ELSE pending \o <<sobj.id>>
              /\ sobj.status \in {"sent", "success", "failed"} => pending' = pending)
      ]_vars

C28_Witness ==
    /\ spc = "idle"
    /\ resaves = 1
    /\ nclaimed[1] = 1
    /\ rec[1].status = "sent"
    /\ pending = <<>>
    /\ InInflight(1)

(* a step that runs the claim script for caller p *)
ClaimStep(p) == cpc[p] = "idle" /\ cpc'[p] = "fetch"

(* C29, as stated: only claim_pending_commands modifies the pending list,   *)
(* the inflight zset and a command hash together; save() leaves the          *)
(* inflight zset alone, update_status leaves the pending list alone, and     *)
(* the sweep modifies at most one of the two for a command: once it has      *)
(* pushed the id onto the pending list it does not change the inflight       *)
(* zset, and where it fails a command it does not change the pending list.   *)
C29_SweepWritesOneOfPair ==
    [][ /\ spc' # spc => inflight' = inflight
        /\ rpc' # rpc => pending' = pending
        /\ (SweepStep /\ wpc \in {"fail", "fail_hset", "fail_zrem"}) => pending' = pending
        /\ SweepMoves("requeue_zrem", "loop") => inflight' = inflight
      ]_vars

(* C29, amended: the claim script is the only single step that modifies the *)
(* pending list, the inflight zset and command hashes together; every other  *)
(* Redis call modifies one structure; save() and update_status leave one of  *)
(* the pair alone; the sweep's requeue modifies the hash, the pending list   *)
(* and the inflight zset for the command, in three separate calls.           *)
C29_OneStructurePerCall ==
    [][ /\ (pending' # pending /\ inflight' # inflight) => \E p \in Callers : ClaimStep(p)
        /\ \A p \in Callers :
             (ClaimStep(p) /\ cids'[p] # <<>>) =>
                (/\ pending' # pending
                 /\ rec' # rec
                 /\ \A c \in Range(cids'[p]) : c \in DOMAIN inflight' /\ inflight'[c] = now)
        /\ (\A p \in Callers : ~ClaimStep(p)) =>
              \/ rec' = rec /\ pending' = pending
              \/ rec' = rec /\ inflight' = inflight
              \/ pending' = pending /\ inflight' = inflight
        /\ spc' # spc => inflight' = inflight
        /\ rpc' # rpc => pending' = pending
        /\ (SweepStep /\ wpc \in {"fail", "fail_hset", "fail_zrem"}) => pending' = pending
        /\ SweepMoves("requeue", "requeue_lpush") =>
              (rec' # rec /\ pending' = pending /\ inflight' = inflight)
        /\ SweepMoves("requeue_lpush", "requeue_zrem") =>
              (rec' = rec /\ pending' # pending /\ inflight' = inflight)
        /\ SweepMoves("requeue_zrem", "loop") =>
              (rec' = rec /\ pending' = pending /\ inflight' = ZRem(inflight, wobj.id))
      ]_vars

C29_Witness ==
    /\ wpc = "loop"
    /\ wids = <<>>
    /\ wts = 1300
    /\ 1 \in Ids
    /\ nclaimed[1] = 1
    /\ rec[1].status = "pending"
    /\ rec[1].last_error = ErrRetry
    /\ pending = <<1>>
    /\ inflight = <<>>

(* SpecStatus: the handler of a device report and the sweep run at the same *)
(* time, the Redis calls of the one between those of the other; issue,       *)
(* claim and the clock step only while no other call is in progress          *)
NextStatus ==
    \/ /\ AllIdle
       /\ Len(rec) < StatusCmds
       /\ \E prio \in Priorities, m \in RetryLimits, t \in ShortTimeouts :
             Issue(prio, m, t)
    \/ SaveEnqueue
    \/ /\ AllIdle
       /\ Poll
    \/ ClaimFetch(1)
    \/ ClaimReturn(1)
    \/ /\ spc = "idle" /\ cpc[1] = "idle"
       /\ \E c \in held : ReportGet(c)
    \/ ReportUpdate
    \/ ReportHSet
    \/ /\ spc = "idle" /\ cpc[1] = "idle"
       /\ SweepStart
    \/ SweepNext
    \/ SweepFailZrem
    \/ SweepFailHSet
    \/ SweepFailZrem2
    \/ SweepRequeueHSet
    \/ SweepRequeueLPush
    \/ SweepRequeueZrem
    \/ /\ AllIdle
       /\ ticks < StatusTicks
       /\ Tick(FLOOR)

SpecStatus == Init /\ [][NextStatus]_vars

(* C30: update_status tests no stored status: whatever the status of the    *)
(* command is (pending, sent, success or failed), the call made for a        *)
(* device report or by the sweep stores the new status, and for success or   *)
(* failed stores the time of the call as result_ts.                          *)
C30_UpdateStatusUnconditional ==
    [][ /\ (rpc = "update" /\ rpc' = "hset") =>
             (/\ rec[robj.id].status \in {"pending", "sent", "success", "failed"}
              /\ robj'.status \in Terminal
              /\ robj'.result_ts = now)
        /\ (rpc = "hset" /\ rpc' = "idle") =>
             (/\ rec[robj.id].status \in {"pending", "sent", "success", "failed"}
              /\ rec'[robj.id].status = robj.status
              /\ rec'[robj.id].result_ts = SerializeValue(robj.result_ts))
        /\ SweepMoves("fail", "fail_hset") => wobj'.result_ts = now
        /\ SweepMoves("fail_hset", "fail_zrem") =>
             (/\ rec'[wobj.id].status = "failed"
              /\ rec'[wobj.id].result_ts = SerializeValue(wobj.result_ts))
        /\ SweepMoves("requeue", "requeue_lpush") =>
             (/\ rec'[wobj.id].status = "pending"
              /\ rec'[wobj.id].result_ts \in
                    {rec[wobj.id].result_ts, SerializeValue(wobj.result_ts)})
      ]_vars

C30_Witness ==
    \E c \in Ids :
      /\ rpc = "idle"
      /\ wpc = "idle"
      /\ c \in reported
      /\ nclaimed[c] = 1
      /\ rec[c].status = "pending"
      /\ rec[c].last_error = ErrRetry
      /\ rec[c].result_payload_json = SerializeJson(<<"res">>)
      /\ rec[c].result_ts = 1300

(* SpecGone: commands are issued, a caller claims them, and another client  *)
(* deletes hashes of claimed commands between the script and the fetch       *)
NextGone ==
    \/ /\ cpc[1] = "idle"
       /\ Len(rec) < GoneCmds
       /\ \E m \in RetryLimits, t \in ShortTimeouts : Issue(0, m, t)
    \/ SaveEnqueue
    \/ /\ spc = "idle"
       /\ \E n \in ClaimSizes : ClaimLua(1, n)
    \/ \E c \in Ids : Delete(c)
    \/ ClaimFetch(1)
    \/ ClaimReturn(1)

SpecGone == Init /\ [][NextGone]_vars

(* C31: the fetch phase of a claim call returns, in claim order, the        *)
(* claimed ids whose hash still exists; an id whose hash was deleted after   *)
(* the script ran is left out, and the call still returns.                   *)
C31_MissingRecordDropped ==
    [][ \A p \in Callers :
          (cpc[p] = "fetch" /\ cpc'[p] # "fetch") =>
             /\ cpc'[p] = "ret"
             /\ cret'[p] = SelectSeq(cids[p], LAMBDA c : DOMAIN rec[c] # {})
      ]_vars

C31_Witness ==
    /\ cpc[1] = "ret"
    /\ creq[1] = 3
    /\ Len(rec) = 3
    /\ \A c \in 1..3 : nclaimed[c] = 1
    /\ DOMAIN rec[2] = {}
    /\ cret[1] = <<3, 1>>


-----------------------------------------------------------------------------
(* recover_timed_out_commands(device_id=None): the device discovery          *)
(* (lines 148-160).  The state is the inflight key of every device: a        *)
(* device in dinfl holds one claimed command whose deadline has passed and   *)
(* that has attempts left, so a pass over that device (lines 162-192) puts   *)
(* it back in the pending list.                                              *)

(* the keys present in Redis *)
Keyspace ==
    {DEVICE_COMMANDS_INFLIGHT(d) : d \in dinfl}
      \cup {DEVICE_COMMANDS_PENDING(d) : d \in dpend}
      \cup {DEVICE_COMMAND(d, CommandIds[1]) : d \in dinfl \cup dpend}

(* line 150: the keys SCAN returns for the pattern cm:dev:*:cmd:inflight;   *)
(* '*' matches any characters, ':' included                                 *)
MatchesInflight(k) ==
    /\ Len(k) >= 5
    /\ k[1] = "cm" /\ k[2] = "dev"
    /\ k[Len(k) - 1] = "cmd" /\ k[Len(k)] = "inflight"

(* lines 151-155: parts = key.split(':'); device_id = parts[2] *)
ScanDevices ==
    {<<k[3]>> : k \in {x \in Keyspace : MatchesInflight(x) /\ Len(x) >= 4}}

(* lines 162-192 for each device of D: the expired id leaves the inflight   *)
(* set and enters the pending list                                          *)
SweptInflight(D) == dinfl \ D
SweptPending(D) == dpend \cup (dinfl \cap D)

(* device d claims its pending command, or one just issued for it, and the  *)
(* deadline passes                                                          *)
DeviceClaim(d) ==
    /\ d \notin dinfl
    /\ dinfl' = dinfl \cup {d}
    /\ dpend' = dpend \ {d}
    /\ UNCHANGED <<swept, outsideScan>>

(* recover_timed_out_commands(d), lines 145-146 *)
RecoverOne(d) ==
    /\ dinfl' = SweptInflight({d})
    /\ dpend' = SweptPending({d})
    /\ UNCHANGED <<swept, outsideScan>>

(* recover_timed_out_commands(), lines 147-160 *)
RecoverAll ==
    /\ swept' = ScanDevices
    /\ dinfl' = SweptInflight(ScanDevices)
    /\ dpend' = SweptPending(ScanDevices)
    /\ UNCHANGED outsideScan

NextScan ==
    \/ \E d \in DeviceIds : DeviceClaim(d)
    \/ \E d \in DeviceIds : RecoverOne(d)
    \/ RecoverAll

SpecScan == Init /\ [][NextScan]_vars

(* C32: recover_timed_out_commands() with no device leaves the store as     *)
(* one call per device with a non-empty inflight set would: every such      *)
(* device is swept, no other device changes                                 *)
C32_SweepsEveryInflightDevice ==
    [][ RecoverAll =>
          /\ dinfl' = SweptInflight(dinfl)
          /\ dpend' = SweptPending(dinfl)
      ]_vars


-----------------------------------------------------------------------------
(* CommandBatch (lines 311-401) *)

(* save lines 346-368 and get lines 325-344: the counters are written with  *)
(* _serialize_value and read with _deserialize_value                        *)
BatchSerialize(b) ==
    [total_commands |-> SerializeValue(b.total_commands),
     completed_commands |-> SerializeValue(b.completed_commands),
     failed_commands |-> SerializeValue(b.failed_commands)]
BatchDeserialize(h) ==
    [total_commands |-> DeserializeValue(h.total_commands),
     completed_commands |-> DeserializeValue(h.completed_commands),
     failed_commands |-> DeserializeValue(h.failed_commands)]

(* line 373: f"{device_id}|{command_id}", as its pieces between '|' *)
Ref(d, c) == d \o <<c>>

(* lines 389-390: ref.split('|', 1) and RemoteCommand.get(device_id,        *)
(* command_id): the device id is the first piece, the command id the rest   *)
RefStatus(ref) ==
    IF Len(ref) = 2 /\ <<<<ref[1]>>, ref[2]>> \in BatchCommands
    THEN cstat[<<<<ref[1]>>, ref[2]>>]
    ELSE Missing

(* lines 388-396 with sent counted as completed *)
CountSentToo(refs, st) ==
    Cardinality({r \in refs : RefStatus(r) = st \/ (st = "success" /\ RefStatus(r) = "sent")})

(* lines 388-396: the refs whose command exists with status st *)
Count(refs, st) == Cardinality({r \in refs : RefStatus(r) = st})

(* CommandBatch(total_commands=n).save(), lines 346-368 *)
BatchCreate(n) ==
    /\ bhash = EmptyHash
    /\ bobj' = [total_commands |-> n, completed_commands |-> 0, failed_commands |-> 0]
    /\ bhash' = BatchSerialize(bobj')
    /\ UNCHANGED <<bset, cstat, nadds, outsideBatch>>

(* CommandBatch.get(batch_id), lines 325-344: the caller reloads its object *)
BatchGet ==
    /\ bhash # EmptyHash
    /\ bobj' = BatchDeserialize(bhash)
    /\ UNCHANGED <<bset, bhash, cstat, nadds, outsideBatch>>

(* add_command that also counts the command in total_commands *)
AddCommandCounting(d, c) ==
    /\ bhash # EmptyHash
    /\ nadds < MaxAdds
    /\ bset' = bset \cup {Ref(d, c)}
    /\ nadds' = nadds + 1
    /\ bobj' = [bobj EXCEPT !.total_commands = @ + 1]
    /\ bhash' = BatchSerialize(bobj')
    /\ UNCHANGED <<cstat, outsideBatch>>

(* add_command(command_id, device_id), lines 370-373 *)
AddCommand(d, c) ==
    /\ bhash # EmptyHash
    /\ nadds < MaxAdds
    /\ bset' = bset \cup {Ref(d, c)}
    /\ nadds' = nadds + 1
    /\ UNCHANGED <<bhash, bobj, cstat, outsideBatch>>

(* a command of the batch's devices is saved, claimed, reported on, failed  *)
(* by the sweep, or deleted                                                 *)
CommandStatus(k, st) ==
    /\ cstat[k] # st
    /\ cstat' = [cstat EXCEPT ![k] = st]
    /\ UNCHANGED <<bset, bhash, bobj, nadds, outsideBatch>>

(* update_stats(), lines 380-401 *)
UpdateStats ==
    /\ bhash # EmptyHash
    /\ bobj' = [bobj EXCEPT !.completed_commands = Count(bset, "success"),
                            !.failed_commands = Count(bset, "failed")]
    /\ bhash' = BatchSerialize(bobj')
    /\ UNCHANGED <<bset, cstat, nadds, outsideBatch>>

NextBatch ==
    \/ \E n \in Totals : BatchCreate(n)
    \/ BatchGet
    \/ \E k \in BatchCommands : AddCommand(k[1], k[2])
    \/ \E k \in BatchCommands, st \in Statuses \cup {Missing} : CommandStatus(k, st)
    \/ UpdateStats

SpecBatch == Init /\ [][NextBatch]_vars

C34_TotalIsMemberCount ==
    [][ UpdateStats =>
          /\ bobj'.total_commands = Cardinality(bset)
          /\ bobj'.completed_commands + bobj'.failed_commands <= bobj'.total_commands
      ]_vars

(* C35: add_command inserts the ref into the member set and changes nothing *)
(* else, no counter in the object or in the stored hash; adding a ref that  *)
(* is a member already leaves the set as it is                              *)
C35_AddCommandOnlyInserts ==
    [][ \A k \in BatchCommands :
          (nadds' = nadds + 1 /\ Ref(k[1], k[2]) \in bset' /\ bset' \ bset \subseteq {Ref(k[1], k[2])}) =>
             /\ bset' = bset \cup {Ref(k[1], k[2])}
             /\ (Ref(k[1], k[2]) \in bset => bset' = bset)
             /\ bobj' = bobj
             /\ bhash' = bhash
             /\ cstat' = cstat
      ]_vars

(* the same command was added twice to a batch created with 2 commands *)
C35_Witness ==
    /\ nadds = 2
    /\ bset = {Ref(<<"A">>, "cmd_1")}
    /\ bhash # EmptyHash
    /\ BatchDeserialize(bhash).total_commands = 2
    /\ bobj.total_commands = 2


-----------------------------------------------------------------------------
(* Device.save and Device.update_status (device.py 101-161),                 *)
(* rebuild_device_indexes (redis_utils.py 196-220).  Every call runs to its *)
(* end or to the Redis call that raises; what it wrote before stays.        *)

(* device.py 114: 'merchant_id': self.merchant_id or '' *)
StoredMerchant(m) == IF m = NoMerchant THEN "" ELSE m

(* `if device.merchant_id:` *)
HasMerchant(m) == m # "" /\ m # NoMerchant

(* remove_from_index (redis_utils.py 190-193) begins with ZREM.  The status *)
(* and merchant indexes are sets (add_to_index without a score is SADD),    *)
(* and a key exists while its set has a member: ZREM on a key that holds a  *)
(* set is answered with WRONGTYPE, which redis-py raises; on a missing key  *)
(* ZREM and SREM remove nothing.                                            *)
RemoveRaises(index) == index # {}

(* rebuild_device_indexes runs to its end: lines 206-207 for every status,  *)
(* lines 209-210 for the device's merchant                                  *)
RebuildCompletes(dev) ==
    /\ \A i \in 1..Len(DeviceStatuses) : ~RemoveRaises(idxStatus[DeviceStatuses[i]])
    /\ (HasMerchant(dev.merchant_id) => ~RemoveRaises(idxMerchant[dev.merchant_id]))

(* the caller builds a Device or assigns status and merchant_id of the one  *)
(* it holds                                                                 *)
DeviceAssign(d, st, m) ==
    /\ dobj[d] # [status |-> st, merchant_id |-> m, stored |-> TRUE]
    /\ dobj' = [dobj EXCEPT ![d] = [status |-> st, merchant_id |-> m, stored |-> TRUE]]
    /\ UNCHANGED <<dhash, idxStatus, idxMerchant, outsideDevice>>

(* Device.get(d), device.py 32-58 *)
DeviceGet(d) ==
    /\ dhash[d].stored
    /\ dobj[d] # dhash[d]
    /\ dobj' = [dobj EXCEPT ![d] = dhash[d]]
    /\ UNCHANGED <<dhash, idxStatus, idxMerchant, outsideDevice>>

(* Device.save(), device.py 101-135, with rebuild_device_indexes of the     *)
(* device just written                                                      *)
DeviceSave(d) ==
    LET dev == [status |-> dobj[d].status,
                merchant_id |-> StoredMerchant(dobj[d].merchant_id),
                stored |-> TRUE]
    IN /\ dobj[d].stored
       /\ dhash' = [dhash EXCEPT ![d] = dev]
       /\ IF RebuildCompletes(dev)
          THEN /\ idxStatus' = [idxStatus EXCEPT ![dev.status] = @ \cup {d}]
               /\ idxMerchant' =
                    IF HasMerchant(dev.merchant_id)
                    THEN [idxMerchant EXCEPT ![dev.merchant_id] = @ \cup {d}]
                    ELSE idxMerchant
          ELSE UNCHANGED <<idxStatus, idxMerchant>>
       /\ UNCHANGED <<dobj, outsideDevice>>

(* Device.update_status(st), device.py 137-161 *)
DeviceUpdateStatus(d, st) ==
    LET old == dobj[d].status
    IN /\ dobj[d].stored
       /\ dobj' = [dobj EXCEPT ![d].status = st]
       /\ dhash' = [dhash EXCEPT ![d].status = st, ![d].stored = TRUE]
       /\ IF old # st /\ ~RemoveRaises(idxStatus[old])
          THEN idxStatus' = [idxStatus EXCEPT ![st] = @ \cup {d}]
          ELSE UNCHANGED idxStatus
       /\ UNCHANGED <<idxMerchant, outsideDevice>>

NextDevice ==
    \/ \E d \in Devices, st \in Range(DeviceStatuses), m \in Merchants \cup {NoMerchant} :
          DeviceAssign(d, st, m)
    \/ \E d \in Devices : DeviceGet(d)
    \/ \E d \in Devices : DeviceSave(d)
    \/ \E d \in Devices, st \in Range(DeviceStatuses) : DeviceUpdateStatus(d, st)

SpecDevice == Init /\ [][NextDevice]_vars

(* the status indexes that hold device d *)
StatusIndexesOf(d) == {st \in Range(DeviceStatuses) : d \in idxStatus[st]}
MerchantIndexesOf(d) == {m \in Merchants : d \in idxMerchant[m]}

(* C36: after any sequence of Device.save and Device.update_status calls, a *)
(* stored device is in exactly one status index, that of its stored status  *)
C36_OneStatusIndex ==
    \A d \in Devices : dhash[d].stored => StatusIndexesOf(d) = {dhash[d].status}

(* C37: after Device.save the device is in the merchant index of its        *)
(* current merchant_id and in no other                                      *)
C37_OneMerchantIndex ==
    [][ \A d \in Devices :
          DeviceSave(d) =>
             MerchantIndexesOf(d)' = {m \in Merchants : m = dhash'[d].merchant_id}
      ]_vars


-----------------------------------------------------------------------------
(* DeviceBin.save, update_remaining, refill, consume, is_low                 *)
(* (material.py 184-251)                                                    *)

Max(a, b) == IF a > b THEN a ELSE b

(* save lines 188-198 and get lines 131-143 *)
BinSerialize(b) ==
    [remaining |-> SerializeValue(b.remaining),
     capacity |-> SerializeValue(b.capacity),
     threshold_low_pct |-> SerializeValue(b.threshold_low_pct)]
BinDeserialize(h) ==
    [remaining |-> DeserializeValue(h.remaining),
     capacity |-> DeserializeValue(h.capacity),
     threshold_low_pct |-> DeserializeValue(h.threshold_low_pct)]

(* is_low with <= in place of < *)
IsLowInclusive(b) ==
    IF b.capacity <= 0 THEN FALSE
    ELSE ((b.remaining * 100) \div b.capacity) <= b.threshold_low_pct

(* is_low, lines 245-251 *)
IsLow(b) ==
    IF b.capacity <= 0 THEN FALSE
    ELSE ((b.remaining * 100) \div b.capacity) < b.threshold_low_pct

(* save lines 200-212, for the object b: HSET, then SADD or SREM of the bin *)
(* index on the low-bins set                                                *)
SaveBin(h, b) ==
    /\ binobj' = [binobj EXCEPT ![h] = b]
    /\ binhash' = BinSerialize(b)
    /\ lowbins' = IF IsLow(b) THEN lowbins \cup {BinIndex} ELSE lowbins \ {BinIndex}
    /\ UNCHANGED outsideBin

(* DeviceBin(device_id, bin_index, remaining=r, capacity=c,                 *)
(* threshold_low_pct=t)                                                     *)
BinNew(h, r, c, t) ==
    /\ binobj[h] = NoBin
    /\ binobj' = [binobj EXCEPT ![h] = [remaining |-> r, capacity |-> c,
                                        threshold_low_pct |-> t]]
    /\ UNCHANGED <<binhash, lowbins, outsideBin>>

(* DeviceBin.get(device_id, bin_index), lines 123-143 *)
BinGet(h) ==
    /\ binhash # EmptyHash
    /\ binobj[h] # BinDeserialize(binhash)
    /\ binobj' = [binobj EXCEPT ![h] = BinDeserialize(binhash)]
    /\ UNCHANGED <<binhash, lowbins, outsideBin>>

(* save(), lines 184-214 *)
BinSave(h) ==
    /\ binobj[h] # NoBin
    /\ SaveBin(h, binobj[h])

(* update_remaining(new_amount), lines 216-221 *)
BinUpdateRemaining(h, a) ==
    /\ binobj[h] # NoBin
    /\ SaveBin(h, [binobj[h] EXCEPT !.remaining = Max(0, a)])

(* refill(amount), lines 223-233 *)
BinRefill(h, a) ==
    /\ binobj[h] # NoBin
    /\ SaveBin(h, [binobj[h] EXCEPT !.remaining =
                      IF a = NoAmount THEN binobj[h].capacity
                      ELSE Min(binobj[h].capacity, binobj[h].remaining + a)])

(* consume(amount), lines 235-243: an amount <= 0 returns False at once *)
BinConsume(h, a) ==
    /\ binobj[h] # NoBin
    /\ a > 0
    /\ SaveBin(h, [binobj[h] EXCEPT !.remaining = Max(0, binobj[h].remaining - a)])

NextBin ==
    \/ \E h \in Holders, r \in Remainings, c \in Capacities, t \in Thresholds :
          BinNew(h, r, c, t)
    \/ \E h \in Holders : BinGet(h)
    \/ \E h \in Holders : BinSave(h)
    \/ \E h \in Holders, a \in Amounts : BinUpdateRemaining(h, a)
    \/ \E h \in Holders, a \in Amounts \cup {NoAmount} : BinRefill(h, a)
    \/ \E h \in Holders, a \in Amounts : BinConsume(h, a)

SpecBin == Init /\ [][NextBin]_vars

(* C38: after any sequence of save, update_remaining, refill and consume    *)
(* calls the bin's index is in the low-bins set exactly when the stored     *)
(* capacity > 0 and remaining / capacity * 100 < threshold_low_pct          *)
C38_LowBinsTracksLevel ==
    binhash # EmptyHash =>
       LET b == BinDeserialize(binhash)
       IN (BinIndex \in lowbins) <=>
             (b.capacity > 0 /\ b.remaining * 100 < b.threshold_low_pct * b.capacity)

(* the stored bin is exactly at its threshold and not in the set, after a   *)
(* call through one object, while the other holder's object still has the   *)
(* low level                                                                *)
C38_Witness ==
    /\ binhash # EmptyHash
    /\ BinDeserialize(binhash) = [remaining |-> 1, capacity |-> 4, threshold_low_pct |-> 25]
    /\ lowbins = {}
    /\ binobj[2] = [remaining |-> 0, capacity |-> 4, threshold_low_pct |-> 25]


-----------------------------------------------------------------------------
(* Order.save (order.py 114-172) and the daily counters                      *)
(* (redis_utils.py 167-171)                                                 *)

(* save lines 114-172 of an order object: HSET of the hash, then INCRBY 1   *)
(* on the day's count and INCRBY total_amount_cents on the day's revenue    *)
SaveOrder(o, obj) ==
    /\ nsaves < MaxSaves
    /\ nsaves' = nsaves + 1
    /\ ohash' = [ohash EXCEPT ![o] = obj]
    /\ dayCount' = [dayCount EXCEPT ![obj.day] = @ + 1]
    /\ dayRevenue' = [dayRevenue EXCEPT ![obj.day] = @ + obj.total_amount_cents]
    /\ UNCHANGED outsideOrder

(* a new paid order is saved; server_ts is the time of this first save *)
OrderSave(o, a, d) ==
    /\ ~ohash[o].stored
    /\ SaveOrder(o, [total_amount_cents |-> a, day |-> d, payment_status |-> "paid",
                     stored |-> TRUE])

(* a stored paid order is loaded with Order.get(device_id, order_id), its   *)
(* payment_status set to 'refunded' and save() called again: the steps of   *)
(* api/v1/orders.py 168-179, with the get() that order.py 35 defines        *)
OrderResave(o) ==
    /\ ohash[o].stored
    /\ ohash[o].payment_status = "paid"
    /\ SaveOrder(o, [ohash[o] EXCEPT !.payment_status = "refunded"])

NextOrder ==
    \/ \E o \in OrderIds, a \in AmountsCents, d \in Days : OrderSave(o, a, d)
    \/ \E o \in OrderIds : OrderResave(o)

SpecOrder == Init /\ [][NextOrder]_vars

(* the orders stored for day d, and the sum of their amounts *)
OrdersOf(d) == {o \in OrderIds : ohash[o].stored /\ ohash[o].day = d}
RECURSIVE SumCents(_)
SumCents(S) ==
    IF S = {} THEN 0
    ELSE LET o == CHOOSE x \in S : TRUE
         IN ohash[o].total_amount_cents + SumCents(S \ {o})

(* C39: the daily order counter is the number of distinct orders stored for *)
(* the day and the daily revenue counter the sum of their amounts; saving a *)
(* stored order again leaves both as they were                              *)
C39_CountersMatchStoredOrders ==
    \A d \in Days :
       /\ dayCount[d] = Cardinality(OrdersOf(d))
       /\ dayRevenue[d] = SumCents(OrdersOf(d))

=============================================================================
